---------------------------- MODULE Spec2Model ----------------------------
(***************************************************************************)
(* GalaxySim of src/main.cpp and src/main_galaxy.cpp: the particle         *)
(* ensemble (five parallel vectors), randFloat, init, step and             *)
(* respawnAtOuterRing, and the main loop that drives them.                 *)
(*                                                                         *)
(* Numbers.  A C++ float is modelled as a fixed-point number: the integer  *)
(* n stands for n/1000 (x = 21800 is 21.8f).  Every arithmetic operation   *)
(* rounds its exact result to the nearest multiple of 1/1000, as the       *)
(* float operation rounds to the nearest float.  Vectors are 0-based in    *)
(* the source and 1-based here: posX[i+1] is the source's posX[i].         *)
(***************************************************************************)
EXTENDS Integers, Sequences, FiniteSets, TLC

VARIABLES
    prog,        \* which program: "main" (src/main.cpp) or "main_galaxy"
    P,           \* GalaxySim::P, the SimParams of this run
    posX, posY, velX, velY, brightness,   \* the five vectors of GalaxySim
    rng,         \* randFloat's static mt19937: Unseeded, or its state
    raised,      \* the exception the last call left by, or "none"
    lastOp,      \* history: the last call made ("new", "init", "step")
    lastCount,   \* history: the argument of the last init
    pre,         \* history: the object as the last step() found it
    respawned,   \* history: respawned[i], step() called respawnAtOuterRing(i)
    finite,      \* history: no division of step() had a zero divisor so far
    ops,         \* number of calls made so far
    runB,        \* a second, independent run of the same program
    pc,          \* main(): where the frame loop is
    ret,         \* main(): where the running init returns to
    idx,         \* main(): the index of the running loop, or the vector resized
    isOpen,      \* main(): window.isOpen()
    frames,      \* main(): frames presented
    polled,      \* main(): events polled
    stepped,     \* history: stepped[i], updates of particle i since its init
    seen         \* history: what the render loop read in this frame

vars == << prog, P, posX, posY, velX, velY, brightness, rng, raised, lastOp,
           lastCount, pre, respawned, finite, ops, runB,
           pc, ret, idx, isOpen, frames, polled, stepped, seen >>

---------------------------------------------------------------------------
(* Bounds of the model *)

\* largest count passed to init
MaxN == 2
\* calls of init/step made in one behaviour
MaxOps == 4
\* the particle count of main(), standing for its 10000
NUM_STARS == 2
\* frames main() presents
MaxFrames == 2
\* events main() polls
MaxEvents == 2
\* calls made by each of two compared runs
MaxRunOps == 2

---------------------------------------------------------------------------
(* Fixed-point arithmetic standing for float arithmetic *)

ONE == 1000

Abs(n) == IF n < 0 THEN -n ELSE n

\* n/d rounded to the nearest integer, halves away from zero (d # 0)
RDiv(n, d) ==
    LET q == (Abs(n) + (Abs(d) \div 2)) \div Abs(d)
    IN  IF (n < 0) = (d < 0) THEN q ELSE -q

\* a * b
FMul(a, b) == RDiv(a * b, ONE)

\* a / b; a zero divisor (inf or NaN in the source) is recorded in `finite'
FDiv(a, b) == IF b = 0 THEN 0 ELSE RDiv(a * ONE, b)

RECURSIVE ISqrtB(_, _, _)
ISqrtB(n, lo, hi) ==
    IF lo >= hi THEN lo
    ELSE LET mid == (lo + hi + 1) \div 2
         IN  IF mid * mid <= n THEN ISqrtB(n, mid, hi)
                               ELSE ISqrtB(n, lo, mid - 1)

\* the integer nearest to the square root of n; 46340 is the largest root
\* of a 32-bit integer
ISqrt(n) ==
    LET r == ISqrtB(n, 0, 46340)
    IN  IF n - r * r > r THEN r + 1 ELSE r

\* sqrt(a)
FSqrt(a) == ISqrt(a * ONE)

\* sqrt(x * x + y * y).  A float product keeps its relative precision
\* however small it is, so the sum of squares is not rounded to 1/1000
\* before the root is taken: only the root is rounded.
Hypot(x, y) == ISqrt(x * x + y * y)

FMax(a, b) == IF a < b THEN b ELSE a

\* cos and sin at the angles randFloat(0, 2*pi) produces in this model
Cos(theta) ==
    CASE theta = 0    -> 1000
      [] theta = 1571 -> 0
      [] theta = 3142 -> -1000
      [] theta = 4712 -> 0

Sin(theta) ==
    CASE theta = 0    -> 0
      [] theta = 1571 -> 1000
      [] theta = 3142 -> 0
      [] theta = 4712 -> -1000

---------------------------------------------------------------------------
(* SimParams *)

\* main_galaxy.cpp's defaults
DefaultParams ==
    [ G |-> 2000, M_bh |-> 400000, softening |-> 500, v0 |-> 2200,
      r_core |-> 1200, dt |-> 10,
      viscosityBase |-> 3, viscosityCore |-> 1000, heatScale |-> 1,
      brightnessCool |-> 997, horizonRadius |-> 7000,
      respawnRMin |-> 18000, respawnRMax |-> 28000 ]

\* main.cpp's SimParams has no accretion-disk fields
MainParams ==
    [ G |-> 2000, M_bh |-> 400000, softening |-> 500, v0 |-> 2200,
      r_core |-> 1200, dt |-> 10 ]

\* viscosity, heating and cooling zeroed
NoDissipationParams ==
    [ DefaultParams EXCEPT !.viscosityBase = 0, !.heatScale = 0,
                           !.brightnessCool = 0 ]

\* strong viscosity and heating: eta reaches its cap, brightness its ceiling
HotParams ==
    [ DefaultParams EXCEPT !.viscosityBase = 500, !.heatScale = 5000 ]

\* a malformed set: the respawn ring starts inside the horizon
MalformedParams ==
    [ DefaultParams EXCEPT !.respawnRMin = 5000 ]

GalaxyParamSets ==
    { DefaultParams, NoDissipationParams, HotParams, MalformedParams }

---------------------------------------------------------------------------
(* randFloat: a static generator seeded from std::random_device on the     *)
(* first call.  The generator is modelled as a full-period linear          *)
(* congruential generator of RngModulus states whose top bits give one of  *)
(* RngLevels equally spaced values of [0, 1).                              *)

RngModulus == 64
RngLevels == 4
Unseeded == -1
Seeds == 0 .. RngModulus - 1

\* the state the generator is in when a call draws from it
Seeded(r, seed) == IF r = Unseeded THEN seed ELSE r

\* what std::random_device may seed the generator with, if it still is to be
\* seeded (a seeded generator is not seeded again)
SeedChoices(r) == IF r = Unseeded THEN Seeds ELSE { r }

\* one engine call
NextRng(r) == (13 * r + 11) % RngModulus

\* the value in [0, 1) that engine state r yields
Canonical(r) == (r \div (RngModulus \div RngLevels)) * (ONE \div RngLevels)

\* randFloat(a, b) from the generator state r0 (already seeded):
\* the value returned, and the generator state afterwards
randFloat(r0, a, b) ==
    LET r1 == NextRng(r0)
    IN  [ val |-> a + FMul(b - a, Canonical(r1)), rng |-> r1 ]

TWO_PI == 6283

---------------------------------------------------------------------------
(* GalaxySim.  g is the object: [posX, posY, velX, velY, brightness], with *)
(* rng (the generator), resp (which particles step() respawned) and        *)
(* finite (no zero divisor met).                                           *)

R_MIN == 2000
R_MAX == 30000
EPS == 1
ETA_CAP == 20
B_MAX == 2000
B_MIN == 200
B_RESPAWN == 600

\* the velocity init and respawnAtOuterRing give a particle at (x, y)
OrbitVelocity(p, x, y, spin, jitter) ==
    LET dist   == FMax(Hypot(x, y), 100)
        rx     == FDiv(x, dist)
        ry     == FDiv(y, dist)
        tx     == -ry
        ty     == rx
        v_bh   == FSqrt(FDiv(FMul(p.G, p.M_bh), dist + p.softening))
        v_dm   == p.v0
        v_circ == Hypot(v_bh, v_dm)
        v      == FMul(FMul(v_circ, spin), ONE + jitter)
    IN  [ vx |-> FMul(tx, v), vy |-> FMul(ty, v) ]

\* mutant: init's radius formula pasted into respawnAtOuterRing
RespawnRadiusLikeInit(p, u) == R_MIN + FMul(R_MAX - R_MIN, FSqrt(u))

\* mutant: the ring's width without its inner radius
RespawnRadiusNoMin(p, u) == FMul(p.respawnRMax - p.respawnRMin, u)

\* the radius respawnAtOuterRing draws
RespawnRadius(p, u) == p.respawnRMin + FMul(p.respawnRMax - p.respawnRMin, u)

\* mutant: the respawned particle is appended (push_back) instead of
\* written over particle i
respawnAppend(p, g, i, seed) ==
    LET d1 == randFloat(Seeded(g.rng, seed), 0, ONE)
        r  == p.respawnRMin + FMul(p.respawnRMax - p.respawnRMin, d1.val)
        d2 == randFloat(d1.rng, 0, TWO_PI)
        x  == FMul(r, Cos(d2.val))
        y  == FMul(r, Sin(d2.val))
        d3 == randFloat(d2.rng, -50, 50)
        v  == OrbitVelocity(p, x, y, 1400, d3.val)
    IN  [ g EXCEPT !.posX = Append(@, x), !.posY = Append(@, y),
                   !.velX = Append(@, v.vx), !.velY = Append(@, v.vy),
                   !.brightness = Append(@, B_RESPAWN),
                   !.rng = d3.rng, !.resp = Append(@, TRUE) ]

respawnAtOuterRing(p, g, i, seed) ==
    LET d1    == randFloat(Seeded(g.rng, seed), 0, ONE)
        r     == RespawnRadius(p, d1.val)
        d2    == randFloat(d1.rng, 0, TWO_PI)
        x     == FMul(r, Cos(d2.val))
        y     == FMul(r, Sin(d2.val))
        d3    == randFloat(d2.rng, -50, 50)
        v     == OrbitVelocity(p, x, y, 1400, d3.val)
    IN  [ g EXCEPT !.posX[i] = x, !.posY[i] = y,
                   !.velX[i] = v.vx, !.velY[i] = v.vy,
                   !.brightness[i] = B_RESPAWN,
                   !.rng = d3.rng, !.resp[i] = TRUE ]

\* vector::resize(n), n >= 0: new elements are value-initialized
Resize(v, n) == [ k \in 1 .. n |-> IF k <= Len(v) THEN v[k] ELSE 0 ]

\* the body of init's loop for particle i
initParticle(p, g, i, seed) ==
    LET d1 == randFloat(Seeded(g.rng, seed), 0, ONE)
        r  == R_MIN + FMul(R_MAX - R_MIN, FSqrt(d1.val))
        d2 == randFloat(d1.rng, 0, TWO_PI)
        x  == FMul(r, Cos(d2.val))
        y  == FMul(r, Sin(d2.val))
        d3 == randFloat(d2.rng, -50, 50)
        v  == OrbitVelocity(p, x, y, 1600, d3.val)
        d4 == randFloat(d3.rng, 500, ONE)
    IN  [ g EXCEPT !.posX[i] = x, !.posY[i] = y,
                   !.velX[i] = v.vx, !.velY[i] = v.vy,
                   !.brightness[i] = d4.val,
                   !.rng = d4.rng ]

RECURSIVE initLoop(_, _, _, _, _)
initLoop(p, g, i, count, seed) ==
    IF i > count THEN g
    ELSE initLoop(p, initParticle(p, g, i, seed), i + 1, count, seed)

\* init(count) for count >= 0
init(p, g, count, seed) ==
    LET g0 == [ g EXCEPT !.posX = Resize(g.posX, count),
                         !.posY = Resize(g.posY, count),
                         !.velX = Resize(g.velX, count),
                         !.velY = Resize(g.velY, count),
                         !.brightness = Resize(g.brightness, count),
                         !.resp = [ k \in 1 .. count |-> FALSE ] ]
    IN  initLoop(p, g0, 1, count, seed)

\* mutant: the distance without its epsilon
RegDistNoEps(x, y) == Hypot(x, y)

\* the regularized distance step() computes
RegDist(x, y) == Hypot(x, y) + EPS

\* mutant: the cap's comparison inverted, which makes the cap a floor
ViscosityCapInverted(p, dist) ==
    LET eta == FDiv(p.viscosityBase, dist + p.viscosityCore)
    IN  IF eta < ETA_CAP THEN ETA_CAP ELSE eta

\* eta, capped
Viscosity(p, dist) ==
    LET eta == FDiv(p.viscosityBase, dist + p.viscosityCore)
    IN  IF eta > ETA_CAP THEN ETA_CAP ELSE eta

\* mutant: the ceiling is not applied
GlowNoCeiling(p, b, heat) ==
    LET b3 == FMul(b + heat, p.brightnessCool)
    IN  IF b3 < B_MIN THEN B_MIN ELSE b3

\* brightness after heating, the ceiling, cooling and the floor
Glow(p, b, heat) ==
    LET b1 == b + heat
        b2 == IF b1 > B_MAX THEN B_MAX ELSE b1
        b3 == FMul(b2, p.brightnessCool)
    IN  IF b3 < B_MIN THEN B_MIN ELSE b3

\* the horizon test at the end of step()'s loop body
Swallowed(p, dist) == dist < p.horizonRadius

\* the gravitational acceleration step() computes at (x, y)
Accel(p, x, y) ==
    LET dist     == RegDist(x, y)
        invDist  == FDiv(ONE, dist)
        dx       == FMul(-x, invDist)
        dy       == FMul(-y, invDist)
        a_bh_mag == FDiv(FMul(p.G, p.M_bh), FMul(dist, dist) + p.softening)
        a_dm_mag == FDiv(FMul(p.v0, p.v0), dist + p.r_core)
    IN  [ ax |-> FMul(dx, a_bh_mag) + FMul(dx, a_dm_mag),
          ay |-> FMul(dy, a_bh_mag) + FMul(dy, a_dm_mag) ]

\* the divisors of step()'s loop body for a particle at (x, y)
Divisors(pg, p, x, y) ==
    LET dist == RegDist(x, y)
    IN  << dist, FMul(dist, dist) + p.softening, dist + p.r_core >>
        \o (IF pg = "main_galaxy" THEN << dist + p.viscosityCore >> ELSE << >>)

\* the body of step()'s loop for particle i
stepParticle(pg, p, g, i, seed) ==
    LET x    == g.posX[i]
        y    == g.posY[i]
        dist == RegDist(x, y)
        a    == Accel(p, x, y)
        vx1  == g.velX[i] + FMul(a.ax, p.dt)
        vy1  == g.velY[i] + FMul(a.ay, p.dt)
        px1  == x + FMul(vx1, p.dt)
        py1  == y + FMul(vy1, p.dt)
        divs == Divisors(pg, p, x, y)
        ok   == g.finite /\ \A k \in 1 .. Len(divs) : divs[k] # 0
    IN  IF pg = "main"
        THEN [ g EXCEPT !.posX[i] = px1, !.posY[i] = py1,
                        !.velX[i] = vx1, !.velY[i] = vy1, !.finite = ok ]
        ELSE
        LET eta    == Viscosity(p, dist)
            speed2 == FMul(vx1, vx1) + FMul(vy1, vy1)
            heat   == FMul(FMul(p.heatScale, eta), speed2)
            damp   == ONE - eta
            g1     == [ g EXCEPT !.posX[i] = px1, !.posY[i] = py1,
                                 !.velX[i] = FMul(vx1, damp),
                                 !.velY[i] = FMul(vy1, damp),
                                 !.brightness[i] = Glow(p, g.brightness[i], heat),
                                 !.finite = ok ]
        IN  IF Swallowed(p, dist) THEN respawnAtOuterRing(p, g1, i, seed)
                                  ELSE g1

\* mutant: the loop stops one particle early
StepLoopCondShort(i, n) == i < n

\* step()'s loop condition: particle i is still to be updated
StepLoopCond(i, n) == i <= n

RECURSIVE stepLoop(_, _, _, _, _, _)
stepLoop(pg, p, g, i, n, seed) ==
    IF ~StepLoopCond(i, n) THEN g
    ELSE stepLoop(pg, p, stepParticle(pg, p, g, i, seed), i + 1, n, seed)

step(pg, p, g, seed) ==
    LET n == Len(g.posX)
    IN  stepLoop(pg, p, [ g EXCEPT !.resp = [ k \in 1 .. n |-> FALSE ] ],
                 1, n, seed)

---------------------------------------------------------------------------
(* The object of this run, and its five vectors *)

Sim == [ posX |-> posX, posY |-> posY, velX |-> velX, velY |-> velY,
         brightness |-> brightness, rng |-> rng, resp |-> respawned,
         finite |-> finite ]

\* what a call finds: the five vectors, and which particles the call before
\* it respawned
Vectors(g) == [ posX |-> g.posX, posY |-> g.posY, velX |-> g.velX,
                velY |-> g.velY, brightness |-> g.brightness,
                resp |-> g.resp ]

Install(g) ==
    /\ posX' = g.posX /\ posY' = g.posY
    /\ velX' = g.velX /\ velY' = g.velY
    /\ brightness' = g.brightness
    /\ rng' = g.rng
    /\ respawned' = g.resp
    /\ finite' = g.finite

NewSim == [ posX |-> << >>, posY |-> << >>, velX |-> << >>, velY |-> << >>,
            brightness |-> << >>, rng |-> Unseeded, resp |-> << >>,
            finite |-> TRUE ]

Configs ==
    { [ prog |-> "main", P |-> MainParams ] }
    \cup { [ prog |-> "main_galaxy", P |-> p ] : p \in GalaxyParamSets }

mainVars == << pc, ret, idx, isOpen, frames, polled, stepped, seen >>

\* the frame loop is not running
NoMain ==
    /\ pc = "api" /\ ret = "api" /\ idx = 0 /\ isOpen = TRUE
    /\ frames = 0 /\ polled = 0 /\ stepped = << >> /\ seen = << >>

---------------------------------------------------------------------------
(* Spec: a GalaxySim is constructed (no parameter set is refused) and its  *)
(* init and step are called in any order.                                  *)

Init ==
    /\ \E c \in Configs : prog = c.prog /\ P = c.P
    /\ posX = << >> /\ posY = << >> /\ velX = << >> /\ velY = << >>
    /\ brightness = << >>
    /\ rng = Unseeded
    /\ raised = "none"
    /\ lastOp = "new"
    /\ lastCount = 0
    /\ pre = Vectors(NewSim)
    /\ respawned = << >>
    /\ finite = TRUE
    /\ ops = 0
    /\ runB = NewSim
    /\ NoMain

\* init(count), count < 0: the first resize is asked for count converted to
\* size_t, more than max_size(), and throws std::length_error before any
\* vector changes
InitThrows(count) ==
    /\ ops < MaxOps
    /\ count < 0
    /\ raised' = "length_error"
    /\ lastOp' = "init"
    /\ lastCount' = count
    /\ ops' = ops + 1
    /\ UNCHANGED << prog, P, posX, posY, velX, velY, brightness, rng, pre,
                    respawned, finite, runB, mainVars >>

InitCall(count) ==
    /\ ops < MaxOps
    /\ count >= 0
    /\ \E seed \in SeedChoices(rng) : Install(init(P, Sim, count, seed))
    /\ raised' = "none"
    /\ lastOp' = "init"
    /\ lastCount' = count
    /\ ops' = ops + 1
    /\ UNCHANGED << prog, P, pre, runB, mainVars >>

Step ==
    /\ ops < MaxOps
    /\ \E seed \in SeedChoices(rng) : Install(step(prog, P, Sim, seed))
    /\ pre' = Vectors(Sim)
    /\ raised' = "none"
    /\ lastOp' = "step"
    /\ ops' = ops + 1
    /\ UNCHANGED << prog, P, lastCount, runB, mainVars >>

Next ==
    \/ \E count \in -1 .. MaxN : InitThrows(count)
    \/ \E count \in -1 .. MaxN : InitCall(count)
    \/ Step

Spec == Init /\ [][Next]_vars

---------------------------------------------------------------------------
(* Properties of Spec *)

Lengths == << Len(posX), Len(posY), Len(velX), Len(velY), Len(brightness) >>

Particles == 1 .. Len(posX)

\* the distance of particle i from the center
Radius(i) == Hypot(posX[i], posY[i])

\* the regularized distance the last step() computed for particle i
PreDist(i) == RegDist(pre.posX[i], pre.posY[i])

\* C1: the five vectors always have the same length; it is the count of the
\* last init that returned, and no step() (respawns included) changes it.
C1_LengthsEqualN ==
    /\ \A k \in 1 .. 5 : Lengths[k] = Len(posX)
    /\ (lastOp = "init" /\ raised = "none") => Len(posX) = lastCount
    /\ lastOp = "step" => Len(posX) = Len(pre.posX)

\* C1's case: a step() of a two-particle ensemble that respawned a particle
C1_Witness ==
    /\ lastOp = "step"
    /\ Len(posX) = 2
    /\ \E i \in Particles : respawned[i]

\* C2: after init and after every step(), with brightnessCool < 1, every
\* particle's brightness is in [0.2, 2.0].
C2_BrightnessBounded ==
    (prog = "main_galaxy" => P.brightnessCool < ONE)
        => \A i \in Particles : B_MIN <= brightness[i] /\ brightness[i] <= B_MAX

\* C2's case: one step() heated a particle to the ceiling (it then cooled
\* once) and respawned another
C2_Witness ==
    /\ lastOp = "step"
    /\ prog = "main_galaxy"
    /\ \E i, j \in Particles :
         /\ ~respawned[i]
         /\ pre.brightness[i] < B_MAX
         /\ brightness[i] = FMul(B_MAX, P.brightnessCool)
         /\ respawned[j]

\* C3: a particle whose regularized distance at the start of a step() was
\* below horizonRadius ends that step at a distance in
\* [respawnRMin, respawnRMax] with brightness 0.6.
C3_RespawnPostcondition ==
    (lastOp = "step" /\ prog = "main_galaxy") =>
        \A i \in Particles :
            PreDist(i) < P.horizonRadius =>
                /\ P.respawnRMin <= Radius(i)
                /\ Radius(i) <= P.respawnRMax
                /\ brightness[i] = B_RESPAWN

\* C3's case: a particle inside the horizon whose integration and accretion
\* updates of that step the respawn has overwritten
C3_Witness ==
    /\ lastOp = "step"
    /\ prog = "main_galaxy"
    /\ \E i \in Particles :
         /\ PreDist(i) < P.horizonRadius
         /\ pre.brightness[i] # B_RESPAWN
         /\ Radius(i) > PreDist(i)

\* C4: with horizonRadius < respawnRMin, a particle that a step() respawns
\* ends that step outside the horizon, and the next step() does not respawn
\* it again.
C4_RespawnedOrbitsNext ==
    (lastOp = "step" /\ prog = "main_galaxy" /\ P.horizonRadius < P.respawnRMin)
        => \A i \in Particles :
             /\ respawned[i] => ~Swallowed(P, RegDist(posX[i], posY[i]))
             /\ pre.resp[i] => ~respawned[i]

\* C4's case: a particle respawned by one step() and updated by the next
C4_Witness ==
    /\ lastOp = "step"
    /\ prog = "main_galaxy"
    /\ P.horizonRadius < P.respawnRMin
    /\ \E i \in Particles : pre.resp[i] /\ ~respawned[i]

\* C5: init(count) with count <= 0 returns normally and leaves the five
\* vectors empty, and a step() of an empty ensemble changes nothing.
C5_NonPositiveCountEmpties ==
    /\ (lastOp = "init" /\ lastCount <= 0) =>
          /\ raised = "none"
          /\ \A k \in 1 .. 5 : Lengths[k] = 0
    /\ (lastOp = "step" /\ Len(pre.posX) = 0) =>
          /\ raised = "none"
          /\ \A k \in 1 .. 5 : Lengths[k] = 0

\* C6: no init() or step() runs on a GalaxySim whose parameter set violates
\* the parameter invariants: such a set is refused at construction.
C6_MalformedParamsRejected ==
    (prog = "main_galaxy" /\ ops > 0) =>
        /\ P.respawnRMin < P.respawnRMax
        /\ P.horizonRadius < P.respawnRMin
        /\ P.softening > 0
        /\ P.viscosityCore > 0

---------------------------------------------------------------------------
(* MainSpec: main().  One thread runs the frame loop: it polls the events  *)
(* (R calls init), calls step(), then reads every particle for drawing.    *)
(* init and step advance one vector or one particle at a time here, so     *)
(* that a read between two of their writes would show.                     *)

apiVars == << raised, lastOp, lastCount, pre, ops, runB >>

MainInit ==
    /\ \E c \in { [ prog |-> "main", P |-> MainParams ],
                  [ prog |-> "main_galaxy", P |-> DefaultParams ] } :
          prog = c.prog /\ P = c.P
    /\ posX = << >> /\ posY = << >> /\ velX = << >> /\ velY = << >>
    /\ brightness = << >>
    /\ rng = Unseeded
    /\ raised = "none"
    /\ lastOp = "new"
    /\ lastCount = 0
    /\ pre = Vectors(NewSim)
    /\ respawned = << >>
    /\ finite = TRUE
    /\ ops = 0
    /\ runB = NewSim
    /\ pc = "start" /\ ret = "while" /\ idx = 0 /\ isOpen = TRUE
    /\ frames = 0 /\ polled = 0 /\ stepped = << >> /\ seen = << >>

\* sim.init(NUM_STARS) is called: before the loop, or for the R key
CallInit(back) ==
    /\ pc' = "init_resize"
    /\ ret' = back
    /\ idx' = 1

MainStart ==
    /\ pc = "start"
    /\ CallInit("while")
    /\ UNCHANGED << prog, P, posX, posY, velX, velY, brightness, rng,
                    respawned, finite, isOpen, frames, polled, stepped, seen,
                    apiVars >>

\* init: the five resize calls, one vector each
InitResize ==
    /\ pc = "init_resize"
    /\ posX' = IF idx = 1 THEN Resize(posX, NUM_STARS) ELSE posX
    /\ posY' = IF idx = 2 THEN Resize(posY, NUM_STARS) ELSE posY
    /\ velX' = IF idx = 3 THEN Resize(velX, NUM_STARS) ELSE velX
    /\ velY' = IF idx = 4 THEN Resize(velY, NUM_STARS) ELSE velY
    /\ brightness' = IF idx = 5 THEN Resize(brightness, NUM_STARS)
                                ELSE brightness
    /\ IF idx = 5
       THEN /\ pc' = "init_loop"
            /\ idx' = 1
            /\ respawned' = [ k \in 1 .. NUM_STARS |-> FALSE ]
       ELSE /\ pc' = pc
            /\ idx' = idx + 1
            /\ respawned' = respawned
    /\ UNCHANGED << prog, P, rng, finite, ret, isOpen, frames, polled,
                    stepped, seen, apiVars >>

\* init: one pass of its loop, or its return
InitOne ==
    /\ pc = "init_loop"
    /\ IF idx <= NUM_STARS
       THEN /\ \E seed \in SeedChoices(rng) :
                  Install(initParticle(P, Sim, idx, seed))
            /\ stepped' = [ k \in 1 .. NUM_STARS |->
                              IF k = idx \/ k > Len(stepped) THEN 0
                                                             ELSE stepped[k] ]
            /\ idx' = idx + 1
            /\ pc' = pc
       ELSE /\ pc' = ret
            /\ idx' = 0
            /\ UNCHANGED << posX, posY, velX, velY, brightness, rng,
                            respawned, finite, stepped >>
    /\ UNCHANGED << prog, P, ret, isOpen, frames, polled, seen, apiVars >>

\* while (window.isOpen())
While ==
    /\ pc = "while"
    /\ frames < MaxFrames
    /\ pc' = IF isOpen THEN "poll" ELSE "done"
    /\ UNCHANGED << prog, P, posX, posY, velX, velY, brightness, rng,
                    respawned, finite, ret, idx, isOpen, frames, polled,
                    stepped, seen, apiVars >>

Events == { "Closed", "Escape", "R", "Other" }

\* window.pollEvent(e) returned the event e
PollEvent(e) ==
    /\ pc = "poll"
    /\ polled < MaxEvents
    /\ polled' = polled + 1
    /\ isOpen' = IF e \in { "Closed", "Escape" } THEN FALSE ELSE isOpen
    /\ IF e = "R" THEN CallInit("poll")
                  ELSE UNCHANGED << pc, ret, idx >>
    /\ UNCHANGED << prog, P, posX, posY, velX, velY, brightness, rng,
                    respawned, finite, frames, stepped, seen, apiVars >>

\* window.pollEvent(e) returned false: sim.step() is called
PollEmpty ==
    /\ pc = "poll"
    /\ pc' = "step"
    /\ idx' = 1
    /\ respawned' = [ k \in 1 .. Len(posX) |-> FALSE ]
    /\ UNCHANGED << prog, P, posX, posY, velX, velY, brightness, rng,
                    finite, ret, isOpen, frames, polled, stepped, seen,
                    apiVars >>

\* step: one pass of its loop, or its return to the render loop
StepOne ==
    /\ pc = "step"
    /\ IF StepLoopCond(idx, Len(posX))
       THEN /\ \E seed \in SeedChoices(rng) :
                  Install(stepParticle(prog, P, Sim, idx, seed))
            /\ stepped' = [ stepped EXCEPT ![idx] = @ + 1 ]
            /\ idx' = idx + 1
            /\ pc' = pc
            /\ seen' = seen
       ELSE /\ pc' = "render"
            /\ idx' = 1
            /\ seen' = << >>
            /\ UNCHANGED << posX, posY, velX, velY, brightness, rng,
                            respawned, finite, stepped >>
    /\ UNCHANGED << prog, P, ret, isOpen, frames, polled, apiVars >>

\* a read past the end of a vector
OutOfBounds == -1

\* what the render loop reads at index i: the number of updates the
\* particle has had, or OutOfBounds when a vector has no element i
Observe(i) ==
    IF \E k \in 1 .. 5 : i > Lengths[k] THEN OutOfBounds ELSE stepped[i]

\* the render loop: one read of posX[i], posY[i], velX[i], velY[i] and
\* brightness[i], or the frame's presentation
ReadOne ==
    /\ pc = "render"
    /\ IF idx <= NUM_STARS
       THEN /\ seen' = Append(seen, Observe(idx))
            /\ idx' = idx + 1
            /\ pc' = pc
            /\ frames' = frames
       ELSE /\ pc' = "while"
            /\ idx' = 0
            /\ frames' = frames + 1
            /\ seen' = seen
    /\ UNCHANGED << prog, P, posX, posY, velX, velY, brightness, rng,
                    respawned, finite, ret, isOpen, polled, stepped,
                    apiVars >>

MainNext ==
    \/ MainStart
    \/ InitResize
    \/ InitOne
    \/ While
    \/ \E e \in Events : PollEvent(e)
    \/ PollEmpty
    \/ StepOne
    \/ ReadOne

MainSpec == MainInit /\ [][MainNext]_vars

\* C7: whenever the render loop reads, init and step have run to
\* completion: the five vectors all have NUM_STARS elements and every
\* particle has had the same number of updates, so every read of the frame
\* is in bounds and no frame shows particles of different steps.
C7_ReaderSeesWholeSteps ==
    pc = "render" =>
        /\ \A k \in 1 .. 5 : Lengths[k] = NUM_STARS
        /\ \A i, j \in Particles : stepped[i] = stepped[j]
        /\ \A k \in 1 .. Len(seen) : seen[k] # OutOfBounds /\ seen[k] = seen[1]

\* C7's case: a reset key was handled between two frames, and the second
\* frame has read every particle
C7_Witness ==
    /\ pc = "render"
    /\ frames = 1
    /\ Len(seen) = NUM_STARS
    /\ seen[1] = 1

---------------------------------------------------------------------------
(* TwoRunSpec: two independent runs of the same program are given the same *)
(* calls.  Each run has its own generator, which std::random_device seeds  *)
(* on the run's first randFloat; nothing lets a caller choose the seed.    *)

TwoRunInit ==
    /\ \E c \in { [ prog |-> "main", P |-> MainParams ],
                  [ prog |-> "main_galaxy", P |-> DefaultParams ] } :
          prog = c.prog /\ P = c.P
    /\ posX = << >> /\ posY = << >> /\ velX = << >> /\ velY = << >>
    /\ brightness = << >>
    /\ rng = Unseeded
    /\ raised = "none"
    /\ lastOp = "new"
    /\ lastCount = 0
    /\ pre = Vectors(NewSim)
    /\ respawned = << >>
    /\ finite = TRUE
    /\ ops = 0
    /\ runB = NewSim
    /\ NoMain

BothInit(count) ==
    /\ ops < MaxRunOps
    /\ count >= 0
    /\ \E seed \in SeedChoices(rng) : Install(init(P, Sim, count, seed))
    /\ \E seed \in SeedChoices(runB.rng) : runB' = init(P, runB, count, seed)
    /\ raised' = "none"
    /\ lastOp' = "init"
    /\ lastCount' = count
    /\ ops' = ops + 1
    /\ UNCHANGED << prog, P, pre, mainVars >>

BothStep ==
    /\ ops < MaxRunOps
    /\ \E seed \in SeedChoices(rng) : Install(step(prog, P, Sim, seed))
    /\ \E seed \in SeedChoices(runB.rng) : runB' = step(prog, P, runB, seed)
    /\ pre' = Vectors(Sim)
    /\ raised' = "none"
    /\ lastOp' = "step"
    /\ ops' = ops + 1
    /\ UNCHANGED << prog, P, lastCount, mainVars >>

TwoRunNext ==
    \/ \E count \in 0 .. MaxN : BothInit(count)
    \/ BothStep

TwoRunSpec == TwoRunInit /\ [][TwoRunNext]_vars

\* C8: two independent runs given the same init(N) and the same step()
\* calls have identical posX, posY, velX, velY and brightness after every
\* call.
C8_RunsIdentical ==
    /\ posX = runB.posX /\ posY = runB.posY
    /\ velX = runB.velX /\ velY = runB.velY
    /\ brightness = runB.brightness

---------------------------------------------------------------------------
(* PlacedSpec: step() applied, again and again, to an ensemble of one      *)
(* particle whose position, velocity and brightness were written into the  *)
(* (public) vectors.                                                       *)

PlacedPositions ==
    { << 0, 0 >>, << 3000, 0 >>, << 0, -8000 >>, << 6000, 8000 >>,
      << -12000, 5000 >> }

PlacedVelocities ==
    { << 0, 0 >>, << 0, 5000 >>, << 3000, -4000 >>, << -7000, 1000 >> }

PlacedBrightness == { B_MIN, B_RESPAWN, B_MAX }

PlacedInit ==
    /\ \E c \in Configs : prog = c.prog /\ P = c.P
    /\ \E xy \in PlacedPositions, v \in PlacedVelocities,
          b \in PlacedBrightness :
          /\ posX = << xy[1] >> /\ posY = << xy[2] >>
          /\ velX = << v[1] >> /\ velY = << v[2] >>
          /\ brightness = << b >>
    /\ rng = Unseeded
    /\ raised = "none"
    /\ lastOp = "new"
    /\ lastCount = 0
    /\ respawned = << FALSE >>
    /\ finite = TRUE
    /\ pre = Vectors(Sim)
    /\ ops = 0
    /\ runB = NewSim
    /\ NoMain

PlacedNext == Step

PlacedSpec == PlacedInit /\ [][PlacedNext]_vars

\* sqrt(vx^2 + vy^2)
Speed(vx, vy) == Hypot(vx, vy)

\* viscosity, heating and cooling are off: main.cpp's step has none, and
\* main_galaxy.cpp's has their parameters zeroed
NoDissipation ==
    \/ prog = "main"
    \/ /\ prog = "main_galaxy"
       /\ P.viscosityBase = 0 /\ P.heatScale = 0 /\ P.brightnessCool = 0

\* C9 as stated: with viscosity and cooling disabled, a particle that is
\* not respawned has the same speed after a step() as before it (to within
\* 0.002, twice the resolution of the arithmetic).
C9_SpeedConstant ==
    (lastOp = "step" /\ NoDissipation) =>
        \A i \in Particles :
            ~respawned[i] =>
                Abs(Speed(velX[i], velY[i])
                    - Speed(pre.velX[i], pre.velY[i])) <= 2

\* C9 amended: with viscosity and cooling disabled, step() changes the
\* velocity of a particle that is not respawned by the gravitational
\* increment alone, acceleration at the pre-step position times dt, with no
\* damping; the speed is the same after the step only where that increment
\* leaves it so.
C9_OnlyGravityChangesVelocity ==
    (lastOp = "step" /\ NoDissipation) =>
        \A i \in Particles :
            ~respawned[i] =>
                LET a == Accel(P, pre.posX[i], pre.posY[i])
                IN  /\ velX[i] = pre.velX[i] + FMul(a.ax, P.dt)
                    /\ velY[i] = pre.velY[i] + FMul(a.ay, P.dt)
                    /\ posX[i] = pre.posX[i] + FMul(velX[i], P.dt)
                    /\ posY[i] = pre.posY[i] + FMul(velY[i], P.dt)

\* C9's case: main_galaxy.cpp's step() with the dissipation parameters
\* zeroed moved a particle, outside the horizon, and changed its speed
C9_Witness ==
    /\ lastOp = "step"
    /\ prog = "main_galaxy"
    /\ NoDissipation
    /\ \E i \in Particles :
         /\ ~respawned[i]
         /\ Speed(velX[i], velY[i]) > Speed(pre.velX[i], pre.velY[i])

\* C10: with softening > 0 and viscosityCore > 0, no step() has divided by
\* zero, every particle's regularized distance is at least 1e-3 and every
\* divisor step() would use for it is strictly positive, a particle at the
\* origin included.
C10_NoSingularity ==
    (P.softening > 0 /\ (prog = "main_galaxy" => P.viscosityCore > 0)) =>
        /\ finite
        /\ \A i \in Particles :
             /\ RegDist(posX[i], posY[i]) >= EPS
             /\ LET divs == Divisors(prog, P, posX[i], posY[i])
                IN  \A k \in 1 .. Len(divs) : divs[k] > 0

\* C10's case: a particle at the origin has been through two step() calls,
\* and was still at the origin when the second began
C10_Witness ==
    /\ lastOp = "step"
    /\ ops = 2
    /\ pre.posX[1] = 0 /\ pre.posY[1] = 0

=============================================================================
